---- MODULE Spec2Model ----
(***************************************************************************)
(* Recursive directory search (src/src/main.rs).                           *)
(*                                                                         *)
(* main parses the arguments, creates an mpsc channel, runs search_in_path *)
(* on the root in the main thread and then drains the channel.             *)
(* search_in_path lists a directory and spawns one thread per entry, or    *)
(* reads a file and sends its path when the content contains the query.    *)
(*                                                                         *)
(* One search task exists per filesystem node; task t runs                 *)
(* search_in_path on node t.  The filesystem is fixed by Init.             *)
(***************************************************************************)
EXTENDS Integers, Sequences, FiniteSets, Bags

(***************************************************************************)
(* Bounds of the model                                                     *)
(***************************************************************************)
\* open-handle limit of the process (RLIMIT_NOFILE left for the search)
MaxHandles == 1
\* number of nodes of the tree on which an I/O call fails
MaxFaults == 1

\* errno of "Too many open files", the code matched at main.rs:66 and :120
EMFILE == 24

\* the slots of the directory tree: slot n may hold the entries Tree[n], in
\* listing order, when it holds a directory
Tree == << << 2, 3 >>, << 4, 5 >>, << >>, << >>, << >> >>
Nodes == DOMAIN Tree
SeqRange(q) == { q[i] : i \in DOMAIN q }
\* the slot that is no entry of another: the path given on the command line
Root == CHOOSE n \in Nodes : \A p \in Nodes : n \notin SeqRange(Tree[p])
\* stands for "no path"
NoNode == Root - 1

\* file contents and queries are strings over a two-letter alphabet
Contents == { <<>>, <<"b", "a">>, <<"a", "b">> }
Queries == { <<>>, <<"a">>, <<"a", "b">> }

(***************************************************************************)
(* Pure functions                                                          *)
(***************************************************************************)

\* a faulty variant of Contains: prefix test instead of substring test
ContainsPrefixOnly(hay, needle) ==
    /\ Len(needle) <= Len(hay)
    /\ SubSeq(hay, 1, Len(needle)) = needle

\* a faulty variant of Contains: an empty text contains nothing, not even
\* the empty needle
ContainsInNonEmpty(hay, needle) ==
    \E i \in 1..Len(hay) :
        /\ i - 1 + Len(needle) <= Len(hay)
        /\ SubSeq(hay, i, i - 1 + Len(needle)) = needle

\* str::contains(&str): needle occurs in hay as a contiguous substring
Contains(hay, needle) ==
    \E i \in 0..(Len(hay) - Len(needle)) :
        SubSeq(hay, i + 1, i + Len(needle)) = needle

RECURSIVE Digits(_)
\* decimal rendering of a nonnegative integer, one string per digit
Digits(n) ==
    LET d == << "0", "1", "2", "3", "4", "5", "6", "7", "8", "9" >>
    IN  IF n < 10 THEN << d[n + 1] >>
        ELSE Digits(n \div 10) \o << d[(n % 10) + 1] >>

\* the io::Error values the filesystem calls of the program can return
ErrTooManyFiles == [kind |-> "Uncategorized", os |-> EMFILE, text |-> "Too many open files"]
ErrPermission   == [kind |-> "PermissionDenied", os |-> 13, text |-> "Permission denied"]
ErrNotFound     == [kind |-> "NotFound", os |-> 2, text |-> "No such file or directory"]
ErrInvalidData  == [kind |-> "InvalidData", os |-> 0, text |-> "stream did not contain valid UTF-8"]

\* io::Error's Display: "<text> (os error <code>)" for OS errors, the bare
\* text for errors that carry no OS code
ErrToString(e) ==
    IF e.os = 0 THEN << e.text >>
    ELSE << e.text, " (", "os error " >> \o Digits(e.os) \o << ")" >>

\* a faulty variant of IsTooManyFiles: the needle lost its last digit, "os error 2"
IsTooManyFilesLoose(e) ==
    \E i \in 0..(Len(ErrToString(e)) - 2) :
        SubSeq(ErrToString(e), i + 1, i + 2) = << "os error ", "2" >>

\* a faulty variant of IsTooManyFiles: exhaustion is treated like any other error
IsTooManyFilesNever(e) == FALSE

\* e.to_string().contains("os error 24")
IsTooManyFiles(e) == Contains(ErrToString(e), << "os error ", "2", "4" >>)

(***************************************************************************)
(* The directory tree                                                      *)
(***************************************************************************)
\* the slots below n in listing order
ChildSlots(n) == Tree[n]

Parent(n) ==
    IF \E p \in Nodes : n \in SeqRange(Tree[p])
    THEN CHOOSE p \in Nodes : n \in SeqRange(Tree[p])
    ELSE NoNode

RECURSIVE Ancestors(_)
\* the directories above n, up to the root
Ancestors(n) == IF Parent(n) = NoNode THEN {} ELSE { Parent(n) } \cup Ancestors(Parent(n))

\* what a slot can hold: nothing, a directory or a regular file; err is the
\* outcome of read_dir (directory) or read_to_string (file) on it when a
\* handle is available; entryErr: the listing of the parent yields an Err
\* for this entry
Absent == [kind |-> "absent", content |-> <<>>, err |-> "ok", entryErr |-> FALSE]
NodeStates ==
    { Absent }
    \cup [kind : {"dir"}, content : {<<>>}, err : {"ok", "PermissionDenied", "NotFound"},
          entryErr : {FALSE}]
    \cup [kind : {"dir"}, content : {<<>>}, err : {"ok"}, entryErr : {TRUE}]
    \cup [kind : {"file"}, content : Contents, err : {"ok"}, entryErr : BOOLEAN]
    \cup [kind : {"file"}, content : {<<>>},
          err : {"InvalidData", "PermissionDenied", "NotFound"}, entryErr : {FALSE}]

Faulty(s) == s.err # "ok" \/ s.entryErr

WellFormed(f) ==
    /\ ~f[Root].entryErr
    /\ \A n \in Nodes \ {Root} : f[Parent(n)].kind # "dir" => f[n] = Absent
    /\ Cardinality({n \in Nodes : Faulty(f[n])}) <= MaxFaults


(***************************************************************************)
(* State                                                                   *)
(***************************************************************************)
VARIABLES
    fs,        \* the directory tree: slot -> NodeStates (never changes)
    args,      \* env::args(): the program name and the arguments after it
    limit,     \* the number of handles the process may have open at a time
    mainpc,    \* main: "parse", "search" (in the root call), "drain", "exited"
    exitCode,  \* exit status of the process, -1 while it runs
    config,    \* the Config built by Config::parse, NoConfig before
    fsAccess,  \* fs::canonicalize has been called
    rxAlive,   \* the channel exists and main owns its receiving end
    pc,        \* per task: position in search_in_path
    idx,       \* per directory task: position of the for loop over paths
    handles,   \* per directory task: the Vec of JoinHandles (child tasks)
    holding,   \* the tasks that own an open handle (a ReadDir or a File)
    chan,      \* the channel's queue of sent paths
    out        \* standard output: bag of printed lines

vars == << fs, args, limit, mainpc, exitCode, config, fsAccess, rxAlive, pc, idx, handles,
          holding, chan, out >>

NoConfig == [path |-> NoNode, query |-> <<>>]
ProgName == << "p" >>
RootPath == << "/" >>

\* the argument vectors env::args() can yield
ArgVectors ==
    { <<>>, << ProgName >>, << ProgName, RootPath >> }
    \cup { << ProgName, RootPath, q >> : q \in Queries }

Terminated == { "returned", "panicked" }
Live(t) == pc[t] \notin (Terminated \cup { "unborn" })

\* a faulty variant of TxHolders: only the root call owns a producer handle
TxHoldersRootOnly == { t \in { Root } : Live(t) }

\* the tasks that own a Sender: the tx parameter lives from the call (the
\* clone moved into the spawned closure) until search_in_path ends
TxHolders == { t \in Nodes : Live(t) }

\* the handles that are open: the ReadDir of a task inside the block of
\* lines 51-93 and the File of a task inside read_to_string
OpenHandles == Cardinality(holding)

\* the process runs (worker threads die with the process)
Running == mainpc \in { "search", "drain" }

\* a printed line: a text, followed by a path or by an error's rendering
Line(text, path, err) == [text |-> text, path |-> path, err |-> err]
\* println!("{}", result)
PathLine(n) == Line("", n, <<>>)
IsPathLine(l) == l.text = "" /\ l.path \in Nodes
Println(line) == out (+) SetToBag({ line })

\* entries of directory n that exist, in listing order
Entries(n) == SelectSeq(ChildSlots(n), LAMBDA c : fs[c].kind # "absent")

IoError(name) ==
    CASE name = "PermissionDenied" -> ErrPermission
      [] name = "NotFound" -> ErrNotFound
      [] name = "InvalidData" -> ErrInvalidData
      [] OTHER -> ErrTooManyFiles

\* path.is_dir()
IsDir(n) == fs[n].kind = "dir"

\* where search_in_path starts on node n
Entry(n) == IF IsDir(n) THEN "list" ELSE "read"

\* a faulty variant of Canonicalize: a path that does not resolve is kept as it is
CanonicalizeLenient(path) == [ok |-> TRUE, node |-> Root]

\* fs::canonicalize(path)
Canonicalize(path) ==
    IF path = RootPath /\ fs[Root].kind # "absent"
    THEN [ok |-> TRUE, node |-> Root]
    ELSE [ok |-> FALSE, node |-> NoNode]

\* a faulty variant of ConfigParse: the path is canonicalized as soon as it is read
ConfigParseEager(argv) ==
    LET a1 == IF argv = <<>> THEN <<>> ELSE Tail(argv)
        bad(msg, canon) ==
            [ok |-> FALSE, path |-> NoNode, query |-> <<>>, msg |-> msg, canon |-> canon]
    IN  IF a1 = <<>> THEN bad("No file path found. Usage: cargo run -- <PATH> <QUERY>", FALSE)
        ELSE LET c == Canonicalize(Head(a1))
             IN  IF ~c.ok THEN bad("Given path is not valid", TRUE)
                 ELSE IF Tail(a1) = <<>>
                 THEN bad("No text to search for. Usage: cargo run -- <PATH> <QUERY>", TRUE)
                 ELSE [ok |-> TRUE, path |-> c.node, query |-> Head(Tail(a1)),
                       msg |-> "", canon |-> TRUE]

\* Config::parse(argv)
ConfigParse(argv) ==
    LET a1 == IF argv = <<>> THEN <<>> ELSE Tail(argv)
        bad(msg) == [ok |-> FALSE, path |-> NoNode, query |-> <<>>, msg |-> msg, canon |-> FALSE]
    IN  IF a1 = <<>> THEN bad("No file path found. Usage: cargo run -- <PATH> <QUERY>")
        ELSE IF Tail(a1) = <<>>
             THEN bad("No text to search for. Usage: cargo run -- <PATH> <QUERY>")
             ELSE LET c == Canonicalize(Head(a1))
                  IN  IF c.ok
                      THEN [ok |-> TRUE, path |-> c.node, query |-> Head(Tail(a1)),
                            msg |-> "", canon |-> TRUE]
                      ELSE [ok |-> FALSE, path |-> NoNode, query |-> <<>>,
                            msg |-> "Given path is not valid", canon |-> TRUE]

\* fs::read_dir(path) / opening the file in fs::read_to_string(path): the
\* open fails with EMFILE when the process has no handle left
OpenResult(n) ==
    IF OpenHandles >= limit THEN [ok |-> FALSE, err |-> ErrTooManyFiles]
    ELSE IF fs[n].err \in { "PermissionDenied", "NotFound" }
         THEN [ok |-> FALSE, err |-> IoError(fs[n].err)]
         ELSE [ok |-> TRUE, err |-> ErrTooManyFiles]

(***************************************************************************)
(* Initial state                                                           *)
(***************************************************************************)
\* the state when main is entered, in an environment that allows the
\* process one of the given numbers of open handles
InitFor(limits) ==
    /\ fs \in [Nodes -> NodeStates]
    /\ WellFormed(fs)
    /\ args \in ArgVectors
    /\ limit \in limits
    /\ mainpc = "parse"
    /\ exitCode = -1
    /\ config = NoConfig
    /\ fsAccess = FALSE
    /\ rxAlive = FALSE
    /\ pc = [t \in Nodes |-> "unborn"]
    /\ idx = [t \in Nodes |-> 0]
    /\ handles = [t \in Nodes |-> <<>>]
    /\ holding = {}
    /\ chan = <<>>
    /\ out = EmptyBag

Init == InitFor({ MaxHandles })

\* more handles than the tasks can hold at a time: each task holds at most one
Unlimited == Cardinality(Nodes)

\* the environments from the tightest limit to no effective limit
InitLimits == InitFor(MaxHandles..Unlimited)

(***************************************************************************)
(* main                                                                    *)
(***************************************************************************)
\* a faulty variant of MainStart: the receiving end of the channel is
\* dropped before the search starts
MainStartDropsRx ==
    /\ mainpc = "parse"
    /\ LET r == ConfigParse(args)
       IN  /\ fsAccess' = r.canon
           /\ IF r.ok
              THEN /\ config' = [path |-> r.path, query |-> r.query]
                   /\ rxAlive' = FALSE
                   /\ mainpc' = "search"
                   /\ pc' = [pc EXCEPT ![r.path] = Entry(r.path)]
                   /\ UNCHANGED << exitCode, out >>
              ELSE /\ out' = Println(Line("Error during argument parsing: ", NoNode, << r.msg >>))
                   /\ mainpc' = "exited"
                   /\ exitCode' = 1
                   /\ UNCHANGED << config, rxAlive, pc >>
    /\ UNCHANGED << fs, args, limit, idx, handles, holding, chan >>

\* main.rs:142-150: parse the arguments; on Err print it and exit(1), on Ok
\* create the channel and call search_in_path on the root
MainStart ==
    /\ mainpc = "parse"
    /\ LET r == ConfigParse(args)
       IN  /\ fsAccess' = r.canon
           /\ IF r.ok
              THEN /\ config' = [path |-> r.path, query |-> r.query]
                   /\ rxAlive' = TRUE
                   /\ mainpc' = "search"
                   /\ pc' = [pc EXCEPT ![r.path] = Entry(r.path)]
                   /\ UNCHANGED << exitCode, out >>
              ELSE /\ out' = Println(Line("Error during argument parsing: ", NoNode, << r.msg >>))
                   /\ mainpc' = "exited"
                   /\ exitCode' = 1
                   /\ UNCHANGED << config, rxAlive, pc >>
    /\ UNCHANGED << fs, args, limit, idx, handles, holding, chan >>

\* main.rs:151-153: rx.iter() yields the next queued path, which is printed
MainRecv ==
    /\ mainpc = "drain"
    /\ chan # <<>>
    /\ out' = Println(PathLine(Head(chan)))
    /\ chan' = Tail(chan)
    /\ UNCHANGED << fs, args, limit, mainpc, exitCode, config, fsAccess, rxAlive, pc, idx, handles, holding >>

\* a faulty variant of MainExit: the exit status reports that errors were logged
MainExitErrStatus ==
    /\ mainpc = "drain"
    /\ chan = <<>>
    /\ TxHolders = {}
    /\ mainpc' = "exited"
    /\ exitCode' = IF \E l \in DOMAIN out : ~IsPathLine(l) THEN 1 ELSE 0
    /\ rxAlive' = FALSE
    /\ UNCHANGED << fs, args, limit, config, fsAccess, pc, idx, handles, holding, chan, out >>

\* main.rs:151-154: rx.iter() ends once the queue is empty and every Sender
\* is dropped; main returns and the process exits with status 0
MainExit ==
    /\ mainpc = "drain"
    /\ chan = <<>>
    /\ TxHolders = {}
    /\ mainpc' = "exited"
    /\ exitCode' = 0
    /\ rxAlive' = FALSE
    /\ UNCHANGED << fs, args, limit, config, fsAccess, pc, idx, handles, holding, chan, out >>

(***************************************************************************)
(* search_in_path                                                          *)
(***************************************************************************)
\* task t ends: a return or a panic, which drops what the call owns.  The root call runs on the main
\* thread: its return leads main to the drain loop, its panic unwinds main
\* and the process exits with status 101.
Finish(t, how) ==
    /\ pc' = [pc EXCEPT ![t] = how]
    /\ holding' = holding \ { t }
    /\ IF t # Root THEN UNCHANGED << mainpc, exitCode, rxAlive >>
       ELSE IF how = "returned"
            THEN mainpc' = "drain" /\ UNCHANGED << exitCode, rxAlive >>
            ELSE mainpc' = "exited" /\ exitCode' = 101 /\ rxAlive' = FALSE

\* main.rs:56-76: one pass of the read_dir loop
ReadDir(t) ==
    /\ Running
    /\ pc[t] = "list"
    /\ LET r == OpenResult(t)
       IN  IF r.ok
           THEN /\ pc' = [pc EXCEPT ![t] = "iter"]
                /\ idx' = [idx EXCEPT ![t] = 1]
                /\ holding' = holding \cup { t }
                /\ UNCHANGED << mainpc, exitCode, rxAlive, out >>
           ELSE IF r.err.kind = "PermissionDenied"
           THEN /\ out' = Println(Line("Permission denied: ", t, <<>>))
                /\ Finish(t, "returned")
                /\ UNCHANGED idx
           ELSE IF IsTooManyFiles(r.err)
           THEN /\ pc' = [pc EXCEPT ![t] = "listSleep"]
                /\ UNCHANGED << mainpc, exitCode, rxAlive, out, idx, holding >>
           ELSE /\ out' = Println(Line("Unexpected error during directory iteration: ", NoNode,
                                     ErrToString(r.err)))
                /\ Finish(t, "returned")
                /\ UNCHANGED idx
    /\ UNCHANGED << fs, args, limit, config, fsAccess, handles, chan >>

\* a faulty variant of Wake: exhaustion is fatal to the call, which returns
\* after the sleep instead of trying again
WakeGivesUp(t) ==
    /\ Running
    /\ pc[t] \in { "listSleep", "readSleep" }
    /\ Finish(t, "returned")
    /\ UNCHANGED << fs, args, limit, config, fsAccess, idx, handles, chan, out >>

\* main.rs:67-68 and 121-122: the sleep ends and the loop continues
Wake(t) ==
    /\ Running
    /\ pc[t] \in { "listSleep", "readSleep" }
    /\ pc' = [pc EXCEPT ![t] = IF pc[t] = "listSleep" THEN "list" ELSE "read"]
    /\ UNCHANGED << fs, args, limit, mainpc, exitCode, config, fsAccess, rxAlive, idx, handles, chan, out, holding >>

\* a faulty variant of SkipEntry: break instead of continue
SkipEntryBreak(t) == Len(Entries(t)) + 1

\* main.rs:85: continue with the entry after the one that is an Err
SkipEntry(t) == idx[t] + 1

\* main.rs:77-92: one iteration of the for loop: an entry that is an Err is
\* printed and skipped, for any other a thread is spawned and its handle pushed
Iterate(t) ==
    /\ Running
    /\ pc[t] = "iter"
    /\ idx[t] <= Len(Entries(t))
    /\ LET c == Entries(t)[idx[t]]
       IN  IF fs[c].entryErr
           THEN /\ out' = Println(Line("Unexpected error happened during directory iteration: ", NoNode,
                                     ErrToString(ErrNotFound)))
                /\ UNCHANGED << pc, handles >>
           ELSE /\ pc' = [pc EXCEPT ![c] = Entry(c)]
                /\ handles' = [handles EXCEPT ![t] = Append(@, c)]
                /\ UNCHANGED out
    /\ idx' = [idx EXCEPT ![t] = IF fs[Entries(t)[idx[t]]].entryErr THEN SkipEntry(t) ELSE @ + 1]
    /\ UNCHANGED << fs, args, limit, mainpc, exitCode, config, fsAccess, rxAlive, chan, holding >>

\* main.rs:90: thread::spawn panics when the OS cannot create the thread;
\* the unwinding drops paths, tx and the JoinHandles (the children already
\* spawned are detached and keep running)
SpawnPanic(t) ==
    /\ Running
    /\ pc[t] = "iter"
    /\ idx[t] <= Len(Entries(t))
    /\ ~fs[Entries(t)[idx[t]]].entryErr
    /\ Finish(t, "panicked")
    /\ handles' = [handles EXCEPT ![t] = <<>>]
    /\ UNCHANGED << fs, args, limit, config, fsAccess, idx, chan, out >>

\* a faulty variant of IterEnd: paths lives until the call returns, so the
\* listing handle stays open during the joins
IterEndKeepsHandle(t) ==
    /\ Running
    /\ pc[t] = "iter"
    /\ idx[t] > Len(Entries(t))
    /\ pc' = [pc EXCEPT ![t] = "join"]
    /\ UNCHANGED << fs, args, limit, mainpc, exitCode, config, fsAccess, rxAlive, idx, handles,
                    holding, chan, out >>

\* main.rs:93: the for loop is over, the block ends and paths is dropped
IterEnd(t) ==
    /\ Running
    /\ pc[t] = "iter"
    /\ idx[t] > Len(Entries(t))
    /\ pc' = [pc EXCEPT ![t] = "join"]
    /\ holding' = holding \ { t }
    /\ UNCHANGED << fs, args, limit, mainpc, exitCode, config, fsAccess, rxAlive, idx, handles, chan, out >>

\* a faulty variant of Join: the handle is dropped without waiting for the
\* child, which runs on detached
JoinNoWait(t) ==
    /\ Running
    /\ pc[t] = "join"
    /\ handles[t] # <<>>
    /\ handles' = [handles EXCEPT ![t] = Tail(@)]
    /\ UNCHANGED << fs, args, limit, mainpc, exitCode, config, fsAccess, rxAlive, pc, idx,
                    holding, chan, out >>

\* a faulty variant of Join: handle.join().unwrap(), the child's panic propagates
JoinUnwrap(t) ==
    /\ Running
    /\ pc[t] = "join"
    /\ handles[t] # <<>>
    /\ pc[Head(handles[t])] \in Terminated
    /\ IF pc[Head(handles[t])] = "panicked"
       THEN Finish(t, "panicked") /\ handles' = [handles EXCEPT ![t] = <<>>]
       ELSE handles' = [handles EXCEPT ![t] = Tail(@)]
            /\ UNCHANGED << mainpc, exitCode, rxAlive, pc, holding >>
    /\ UNCHANGED << fs, args, limit, config, fsAccess, idx, chan, out >>

\* main.rs:94-100: handle.join() returns once the child has ended; a child
\* that panicked is reported
Join(t) ==
    /\ Running
    /\ pc[t] = "join"
    /\ handles[t] # <<>>
    /\ pc[Head(handles[t])] \in Terminated
    /\ out' = IF pc[Head(handles[t])] = "panicked"
              THEN Println(Line("Searching thread panicked", NoNode, <<>>))
              ELSE out
    /\ handles' = [handles EXCEPT ![t] = Tail(@)]
    /\ UNCHANGED << fs, args, limit, mainpc, exitCode, config, fsAccess, rxAlive, pc, idx, chan, holding >>

\* main.rs:101 and 139: every handle is joined, the call returns
JoinEnd(t) ==
    /\ Running
    /\ pc[t] = "join"
    /\ handles[t] = <<>>
    /\ Finish(t, "returned")
    /\ UNCHANGED << fs, args, limit, config, fsAccess, idx, handles, chan, out >>

\* main.rs:107-131: one pass of the read_to_string loop up to the open
ReadOpen(t) ==
    /\ Running
    /\ pc[t] = "read"
    /\ LET r == OpenResult(t)
       IN  IF r.ok
           THEN /\ pc' = [pc EXCEPT ![t] = "reading"]
                /\ holding' = holding \cup { t }
                /\ UNCHANGED << mainpc, exitCode, rxAlive, out >>
           ELSE IF r.err.kind = "PermissionDenied"
           THEN /\ out' = Println(Line("Permission denied: ", t, <<>>))
                /\ Finish(t, "returned")
           ELSE IF IsTooManyFiles(r.err)
           THEN /\ pc' = [pc EXCEPT ![t] = "readSleep"]
                /\ UNCHANGED << mainpc, exitCode, rxAlive, out, holding >>
           ELSE /\ out' = Println(Line("Unexpected error while opening a file: ", NoNode,
                                     ErrToString(r.err)))
                /\ Finish(t, "returned")
    /\ UNCHANGED << fs, args, limit, config, fsAccess, idx, handles, chan >>

\* a faulty variant of Send: the path is queued and the task stays ready to
\* send again
SendRepeats(t) ==
    /\ Running
    /\ pc[t] = "send"
    /\ rxAlive
    /\ Len(chan) < Cardinality(Nodes)
    /\ chan' = Append(chan, t)
    /\ \/ UNCHANGED << mainpc, exitCode, rxAlive, pc, holding >>
       \/ Finish(t, "returned")
    /\ UNCHANGED << fs, args, limit, config, fsAccess, idx, handles, out >>

\* a faulty variant of ReadClose: content that is not UTF-8 is read lossily
\* and tested for the query like any other content
ReadCloseLossy(t) ==
    /\ Running
    /\ pc[t] = "reading"
    /\ IF Contains(fs[t].content, config.query)
       THEN /\ pc' = [pc EXCEPT ![t] = "send"]
            /\ holding' = holding \ { t }
            /\ UNCHANGED << mainpc, exitCode, rxAlive >>
       ELSE Finish(t, "returned")
    /\ UNCHANGED << fs, args, limit, config, fsAccess, idx, handles, chan, out >>

\* main.rs:108-113 and 132: the file is read and closed; content that is
\* not UTF-8 is skipped, other content is tested for the query
ReadClose(t) ==
    /\ Running
    /\ pc[t] = "reading"
    /\ IF fs[t].err = "InvalidData"
       THEN Finish(t, "returned")
       ELSE IF Contains(fs[t].content, config.query)
            THEN /\ pc' = [pc EXCEPT ![t] = "send"]
                 /\ holding' = holding \ { t }
                 /\ UNCHANGED << mainpc, exitCode, rxAlive >>
            ELSE Finish(t, "returned")
    /\ UNCHANGED << fs, args, limit, config, fsAccess, idx, handles, chan, out >>

\* main.rs:133-136: tx.send(path), which fails only without a receiver
Send(t) ==
    /\ Running
    /\ pc[t] = "send"
    /\ IF rxAlive
       THEN chan' = Append(chan, t) /\ UNCHANGED out
       ELSE out' = Println(Line("Error while sending results from the thread", NoNode, <<>>))
            /\ UNCHANGED chan
    /\ Finish(t, "returned")
    /\ UNCHANGED << fs, args, limit, config, fsAccess, idx, handles >>

Next ==
    \/ MainStart
    \/ MainRecv
    \/ MainExit
    \/ \E t \in Nodes :
          \/ ReadDir(t)
          \/ Wake(t)
          \/ Iterate(t)
          \/ SpawnPanic(t)
          \/ IterEnd(t)
          \/ Join(t)
          \/ JoinEnd(t)
          \/ ReadOpen(t)
          \/ ReadClose(t)
          \/ Send(t)

Spec == Init /\ [][Next]_vars

\* the program under every limit on the open handles
SpecLimits == InitLimits /\ [][Next]_vars

\* every thread is scheduled again and again (the OS scheduler is fair to
\* runnable threads; a sleeping thread wakes up)
TaskStep(t) ==
    \/ ReadDir(t) \/ Wake(t) \/ Iterate(t) \/ SpawnPanic(t) \/ IterEnd(t)
    \/ Join(t) \/ JoinEnd(t) \/ ReadOpen(t) \/ ReadClose(t) \/ Send(t)
MainStep == MainStart \/ MainRecv \/ MainExit

FairSpec ==
    /\ Spec
    /\ WF_vars(MainStep)
    /\ \A t \in Nodes : WF_vars(TaskStep(t))

(***************************************************************************)
(* Vocabulary of the properties                                            *)
(***************************************************************************)
\* needle = hay[i+1..j] for some cut points i <= j
Occurs(hay, needle) ==
    \E i \in 0..Len(hay) : \E j \in i..Len(hay) : SubSeq(hay, i + 1, j) = needle

\* a regular file that read_to_string can read as text
ReadableText(n) == fs[n].kind = "file" /\ fs[n].err = "ok"
\* ... whose content contains the query
Matching(n) == ReadableText(n) /\ Occurs(fs[n].content, config.query)

Started(n) == pc[n] # "unborn"
Ended(n) == pc[n] \in Terminated
Printed(n) == CopiesIn(PathLine(n), out)
Diagnostics == BagCardinality(out) - BagCardinality([ l \in { x \in DOMAIN out : IsPathLine(x) } |-> out[l] ])

\* n is reached from the root through directories that list successfully
\* and yield every entry on the way without error
Discoverable(n) ==
    /\ fs[n].kind # "absent"
    /\ ~fs[n].entryErr
    /\ \A a \in Ancestors(n) : fs[a].kind = "dir" /\ fs[a].err = "ok" /\ ~fs[a].entryErr

SearchDone == mainpc = "exited" /\ exitCode = 0

C2_Terminates ==
    (mainpc = "search") ~>
        (SearchDone /\ pc[Root] = "returned" /\ \A t \in Nodes : ~Live(t))

\* what the code guarantees instead: the process always ends, through the
\* drain loop or through a panic of the main thread
ProcessEnds == (mainpc = "search") ~> (mainpc = "exited")

(***************************************************************************)
(* C3                                                                      *)
(***************************************************************************)
\* C3: the drain loop ends exactly when every producer handle is dropped:
\* it has not ended while a started task is still running, nothing is left
\* in the channel when it ends and every match a task sent is printed; with
\* the queue empty it waits as long as a task is running, and once no task
\* is running it can always take a step (receive, or end).
C3_DrainEndsWhenClosed ==
    /\ SearchDone =>
          /\ \A t \in Nodes : ~Live(t)
          /\ chan = <<>>
          /\ \A n \in Nodes : (pc[n] = "returned" /\ Matching(n)) => Printed(n) = 1
    /\ (mainpc = "drain" /\ chan = <<>> /\ \E t \in Nodes : Live(t)) => ~ENABLED MainExit
    /\ (mainpc = "drain" /\ \A t \in Nodes : ~Live(t)) => ENABLED (MainRecv \/ MainExit)

\* the search is over and printed the match of a task that outlived its
\* parent (the parent panicked, so nobody joined the task)
C3_Witness ==
    /\ SearchDone
    /\ \E n \in Nodes \ { Root } : Printed(n) = 1 /\ pc[Parent(n)] = "panicked"

(***************************************************************************)
(* C4                                                                      *)
(***************************************************************************)
\* C4 as stated: a directory call has returned only if every task started
\* in its subtree has ended.
C4_ReturnAfterSubtree ==
    \A t \in Nodes : pc[t] = "returned" =>
        \A d \in Nodes : (t \in Ancestors(d) /\ Started(d)) => Ended(d)

(***************************************************************************)
(* C5                                                                      *)
(***************************************************************************)
\* the next read_dir or read_to_string of task t fails with EMFILE
ExhaustedCall(t) == pc[t] \in { "list", "read" } /\ OpenHandles >= limit

C5_Attributable ==
    /\ \A l \in DOMAIN out : ~Occurs(l.err, << "os error ", "2", "4" >>)
    /\ \A l \in DOMAIN out :
          /\ l.text = "Permission denied: " => fs[l.path].err = "PermissionDenied"
          /\ l.text = "Unexpected error during directory iteration: " =>
                \E n \in Nodes : fs[n].kind = "dir" /\ fs[n].err = "NotFound"
          /\ l.text = "Unexpected error while opening a file: " =>
                \E n \in Nodes : fs[n].kind = "file" /\ fs[n].err = "NotFound"
    /\ \A t \in Nodes : (pc[t] = "returned" /\ fs[t].err = "ok") =>
          IF fs[t].kind = "dir"
          THEN idx[t] = Len(Entries(t)) + 1
          ELSE Matching(t) => (Printed(t) = 1 \/ t \in SeqRange(chan))

C5_RetryStep ==
    \A t \in Nodes :
        /\ (ExhaustedCall(t) /\ pc'[t] # pc[t]) =>
              /\ pc'[t] = IF pc[t] = "list" THEN "listSleep" ELSE "readSleep"
              /\ out' = out
        /\ (pc'[t] \in { "listSleep", "readSleep" } /\ pc'[t] # pc[t]) => ExhaustedCall(t)
        /\ (pc[t] = "listSleep" /\ pc'[t] # pc[t]) => pc'[t] = "list"
        /\ (pc[t] = "readSleep" /\ pc'[t] # pc[t]) => pc'[t] = "read"

\* C5: a read_dir or read_to_string that fails with EMFILE is retried after
\* a sleep and prints nothing; a task is in the sleep only after such a
\* failure and goes from it to the same call; every printed diagnostic is
\* due to another error kind, and a task whose call is not failing for
\* another reason returns only after the call has succeeded.
C5_ExhaustionRetried == [](C5_Attributable) /\ [][C5_RetryStep]_vars

\* a directory task and a file task are both asleep after EMFILE
C5_Witness ==
    \E t, u \in Nodes : pc[t] = "listSleep" /\ pc[u] = "readSleep"

(***************************************************************************)
(* C6                                                                      *)
(***************************************************************************)
\* the diagnostic of a read_dir of t that fails for a reason of the tree
ListDiagnostic(t) ==
    IF fs[t].err = "PermissionDenied"
    THEN Line("Permission denied: ", t, <<>>)
    ELSE Line("Unexpected error during directory iteration: ", NoNode,
              << "No such file or directory", " (", "os error ", "2", ")" >>)

C6_Abandoned ==
    \A t \in Nodes : (fs[t].kind = "dir" /\ fs[t].err # "ok") =>
        /\ pc[t] \in { "unborn", "list", "listSleep", "returned" }
        /\ handles[t] = <<>>
        /\ \A d \in Nodes : t \in Ancestors(d) => (~Started(d) /\ Printed(d) = 0)

C6_FailStep ==
    \A t \in Nodes :
        (pc[t] = "list" /\ fs[t].err # "ok" /\ ~ExhaustedCall(t) /\ pc'[t] # pc[t]) =>
            /\ pc'[t] = "returned"
            /\ out' = out (+) SetToBag({ ListDiagnostic(t) })
            /\ \A u \in Nodes \ { t } : pc'[u] = pc[u]

\* C6: a read_dir that fails with permission denied or with another error
\* that is not EMFILE makes the task print one diagnostic and return at
\* once; the task never holds a JoinHandle, and no task is ever started and
\* no match ever printed for a node below it.
C6_ListFailureAbandons == [](C6_Abandoned) /\ [][C6_FailStep]_vars

\* an unlistable directory with entries has returned to its parent, which
\* has returned in turn
C6_Witness ==
    \E t \in Nodes \ { Root } :
        /\ fs[t].kind = "dir" /\ fs[t].err # "ok"
        /\ Entries(t) # <<>>
        /\ pc[t] = "returned" /\ pc[Parent(t)] = "returned"

(***************************************************************************)
(* C7                                                                      *)
(***************************************************************************)
\* n lies in no subtree abandoned after an error or a panic
Unaffected(n) ==
    /\ Discoverable(n)
    /\ fs[n].err = "ok"
    /\ \A a \in Ancestors(n) : pc[a] # "panicked"

\* C7: when the search is over, every node outside the subtrees abandoned
\* after an error was searched by a task that ran to its end, and every
\* such file that matches is printed.
C7_ErrorsStayLocal ==
    SearchDone =>
        \A n \in Nodes : Unaffected(n) =>
            /\ Started(n) /\ Ended(n)
            /\ Matching(n) => Printed(n) = 1

\* the search is over, a node failed and a matching sibling of it is printed
C7_Witness ==
    /\ SearchDone
    /\ \E e, s \in Nodes \ { Root } :
          /\ e # s /\ Parent(e) = Parent(s)
          /\ Faulty(fs[e])
          /\ Matching(s) /\ Printed(s) = 1

(***************************************************************************)
(* C8                                                                      *)
(***************************************************************************)
PanicLine == Line("Searching thread panicked", NoNode, <<>>)

C8_AllJoined ==
    /\ \A t \in Nodes : pc[t] = "returned" =>
          /\ handles[t] = <<>>
          /\ \A c \in Nodes : (Parent(c) = t /\ Started(c)) => Ended(c)
    /\ SearchDone =>
          CopiesIn(PanicLine, out) =
              Cardinality({ c \in Nodes \ { Root } :
                              pc[c] = "panicked" /\ pc[Parent(c)] = "returned" })

C8_JoinStep ==
    \A t \in Nodes :
        (pc[t] = "join" /\ handles[t] # <<>> /\ handles'[t] # handles[t]
            /\ pc[Head(handles[t])] = "panicked") =>
            /\ pc' = pc
            /\ handles'[t] = Tail(handles[t])
            /\ out' = out (+) SetToBag({ PanicLine })

\* C8: joining a child that panicked prints "Searching thread panicked" and
\* goes on to the next handle: no task changes its position in that step;
\* a directory call returns only with every handle joined and every child
\* it started ended, and at the end one line is printed per panicked child
\* of a parent that returned.
C8_ChildPanicContained == [](C8_AllJoined) /\ [][C8_JoinStep]_vars

\* the search is over: a child panicked, its parent returned and a sibling
\* of the child ran and had its match printed
C8_Witness ==
    /\ SearchDone
    /\ \E c, s \in Nodes \ { Root } :
          /\ c # s /\ Parent(c) = Parent(s)
          /\ pc[c] = "panicked" /\ pc[Parent(c)] = "returned"
          /\ Printed(s) = 1

(***************************************************************************)
(* C9                                                                      *)
(***************************************************************************)
C9_Status ==
    /\ (mainpc = "exited" /\ pc[Root] = "returned") => exitCode = 0
    /\ exitCode = 0 => pc[Root] = "returned"

C9_LogStep ==
    (Running /\ out' # out) => mainpc' \in { "search", "drain" }

\* C9: a process that ended after the root call returned has status 0,
\* whatever was logged, and status 0 is reached no other way; a step of the
\* running search that prints a line leaves the process running.
C9_ExitZero == [](C9_Status) /\ [][C9_LogStep]_vars

\* status 0 after a failed node and a panicked child were both logged
C9_Witness ==
    /\ SearchDone
    /\ CopiesIn(PanicLine, out) >= 1
    /\ Diagnostics >= 2

(***************************************************************************)
(* C10                                                                     *)
(***************************************************************************)
UsageError ==
    Line("Error during argument parsing: ", NoNode,
         << IF Len(args) <= 1
            THEN "No file path found. Usage: cargo run -- <PATH> <QUERY>"
            ELSE "No text to search for. Usage: cargo run -- <PATH> <QUERY>" >>)

\* C10: with fewer than two arguments after the program name Config::parse
\* fails without calling canonicalize, and main prints the error and exits
\* with status 1: no channel, no task, nothing else printed.
C10_MissingArgs ==
    Len(args) < 3 =>
        /\ ~ConfigParse(args).ok /\ ~ConfigParse(args).canon
        /\ mainpc # "parse" =>
              /\ mainpc = "exited" /\ exitCode = 1
              /\ ~fsAccess /\ ~rxAlive /\ config = NoConfig
              /\ \A t \in Nodes : ~Started(t)
              /\ chan = <<>>
              /\ out = SetToBag({ UsageError })

\* the program has exited on a command line with the path and no query
C10_Witness == mainpc = "exited" /\ Len(args) = 2

(***************************************************************************)
(* C11                                                                     *)
(***************************************************************************)
\* both arguments are given and the root path does not resolve
UnresolvableRoot == Len(args) = 3 /\ (args[2] # RootPath \/ fs[Root].kind = "absent")

InvalidPathLine == Line("Error during argument parsing: ", NoNode, << "Given path is not valid" >>)

\* C11: when both arguments are present and the root path cannot be
\* resolved, parsing fails, and once main has acted the process has exited
\* with code 1 having printed only the invalid-path message: no task was
\* ever started, no handle was opened, nothing was sent and no channel was
\* created.
C11_UnresolvableRootExits ==
    UnresolvableRoot =>
        /\ ~ConfigParse(args).ok
        /\ \A t \in Nodes : ~Started(t) /\ Printed(t) = 0
        /\ holding = {} /\ chan = <<>> /\ ~rxAlive /\ config = NoConfig
        /\ mainpc \in { "parse", "exited" }
        /\ mainpc = "parse" => out = EmptyBag /\ exitCode = -1
        /\ mainpc = "exited" =>
              /\ exitCode = 1
              /\ fsAccess
              /\ out = SetToBag({ InvalidPathLine })

\* the process has exited on a root path that does not exist
C11_Witness ==
    /\ mainpc = "exited"
    /\ Len(args) = 3
    /\ fs[Root].kind = "absent"
    /\ exitCode = 1

(***************************************************************************)
(* C12                                                                     *)
(***************************************************************************)
\* a regular file whose content is not valid UTF-8
Binary(n) == fs[n].kind = "file" /\ fs[n].err = "InvalidData"

\* no match of a binary file is queued or printed, and its task is never
\* about to send
C12_NothingSent ==
    \A t \in Nodes :
        Binary(t) =>
            /\ pc[t] # "send"
            /\ t \notin SeqRange(chan)
            /\ Printed(t) = 0

\* no step of the task of a binary file prints or sends, and the step that
\* ends its read returns
C12_SilentStep ==
    \A t \in Nodes :
        (Binary(t) /\ pc'[t] # pc[t]) =>
            /\ out' = out
            /\ chan' = chan
            /\ pc[t] = "reading" => pc'[t] = "returned"

\* C12: a file task whose read fails with invalid data returns without
\* printing a diagnostic and without sending a match, whatever the query
\* (the empty one included).
C12_BinarySkippedSilently == [](C12_NothingSent) /\ [][C12_SilentStep]_vars

\* the task of a binary file has returned from its read under the empty
\* query, and nothing at all was printed or sent in the run
C12_Witness ==
    \E t \in Nodes :
        /\ Binary(t)
        /\ pc[t] = "returned"
        /\ config.query = <<>>
        /\ mainpc = "exited" /\ exitCode = 0
        /\ out = EmptyBag

(***************************************************************************)
(* C13                                                                     *)
(***************************************************************************)
EmptyQuery == config.query = <<>>

Reported == { n \in Nodes : Printed(n) >= 1 }

\* the paths reported by a run in which no thread creation fails: a value
\* fixed by the tree and the query alone
ReportedUndisturbed == { n \in Nodes : Discoverable(n) /\ Matching(n) }

\* C14 as stated: every finished run of the same search against the same
\* tree reports the same set of paths, whatever the interleaving and the
\* transient resource failures of the run; stated on one run as: the set
\* it reports is the one the tree and the query determine.
C14_SameSetEveryRun ==
    SearchDone => Reported = ReportedUndisturbed

(***************************************************************************)
(* C15                                                                     *)
(***************************************************************************)
\* the iteration of directory task p has yielded its i-th entry: the for
\* loop went past it, or thread::spawn panicked on it
Yielded(p, i) ==
    /\ IsDir(p)
    /\ i \in 1..Len(Entries(p))
    /\ idx[p] >= 1
    /\ i < idx[p] \/ (pc[p] = "panicked" /\ i = idx[p])

\* C15 as stated: a task is launched on every entry the listing has
\* yielded successfully and on none that errored, the iteration going on
\* past an entry that errored; a task runs only on the root or on a
\* yielded entry of a directory task.
C15_OneTaskPerEntry ==
    /\ \A p \in Nodes : \A i \in 1..Len(Entries(p)) :
           Yielded(p, i) => (Started(Entries(p)[i]) <=> ~fs[Entries(p)[i]].entryErr)
    /\ \A p \in Nodes :
           (IsDir(p) /\ pc[p] \in { "join", "returned" } /\ idx[p] >= 1)
               => idx[p] = Len(Entries(p)) + 1
    /\ \A c \in Nodes :
           (Started(c) /\ c # config.path) =>
               \E i \in 1..Len(Entries(Parent(c))) :
                   Entries(Parent(c))[i] = c /\ Yielded(Parent(c), i)

(***************************************************************************)
(* C16                                                                     *)
(***************************************************************************)
\* the number of times path n is in the channel
Queued(n) == Cardinality({ i \in DOMAIN chan : chan[i] = n })

\* the values task n has sent so far: those queued and those already
\* received and printed
Sent(n) == Queued(n) + Printed(n)

\* C16: every task has sent at most one value, and only its own path: a
\* directory task none, a file task none before its read succeeded and its
\* content was found to contain the query; a task that has ended holds no
\* producer handle and has nothing left to send.
C16_AtMostOneSend ==
    /\ \A n \in Nodes :
           /\ Sent(n) <= 1
           /\ IsDir(n) => Sent(n) = 0
           /\ Sent(n) = 1 => /\ Matching(n)
                              /\ pc[n] = "returned"
           /\ pc[n] = "send" => Sent(n) = 0 /\ Matching(n)
           /\ Ended(n) => n \notin TxHolders
    /\ \A i \in DOMAIN chan : chan[i] \in Nodes /\ fs[chan[i]].kind = "file"

\* two file tasks have each sent their match, one is still queued, and a
\* third file task has returned without sending
C16_Witness ==
    /\ \E a, b \in Nodes : a # b /\ Sent(a) = 1 /\ Sent(b) = 1 /\ Queued(a) = 1
    /\ \E n \in Nodes : fs[n].kind = "file" /\ pc[n] = "returned" /\ Sent(n) = 0

(***************************************************************************)
(* C17                                                                     *)
(***************************************************************************)
\* task t is blocked in handle.join() on a child that has not ended
WaitingInJoin(t) ==
    pc[t] = "join" /\ handles[t] # <<>> /\ pc[Head(handles[t])] \notin Terminated

\* task h can take a step by its own, one that does not need a new handle
CanProceed(h) == ENABLED (Iterate(h) \/ SpawnPanic(h) \/ IterEnd(h) \/ ReadClose(h))

\* C17: a task in its join loop holds no open handle: the holders are the
\* tasks iterating a listing or reading a file, none of which waits for
\* another task.  Hence, while the process runs, whenever the handle budget
\* is used up some holder can proceed towards releasing its handle: the
\* handles are never all held by tasks waiting on descendants.
C17_NoHandleWhileJoining ==
    /\ limit >= 1
    /\ OpenHandles <= limit
    /\ \A t \in Nodes : pc[t] = "join" => t \notin holding
    /\ \A h \in holding : pc[h] \in { "iter", "reading" } /\ ~WaitingInJoin(h)
    /\ (Running /\ OpenHandles >= limit) => \E h \in holding : CanProceed(h)

\* a directory task waits in join for a child that cannot open its path
\* because another task holds the last handle
C17_Witness ==
    \E t, c \in Nodes :
        /\ WaitingInJoin(t)
        /\ Head(handles[t]) = c
        /\ ExhaustedCall(c)
        /\ holding # {}

(***************************************************************************)
(* C18                                                                     *)
(***************************************************************************)
\* a line that reports a resource-exhaustion error
ExhaustionLine(l) == l.err = ErrToString(ErrTooManyFiles)

\* no task above n panicked: the traversal was not cut short above n by a
\* failed thread creation
Undisturbed(n) == \A a \in Ancestors(n) : pc[a] # "panicked"

\* C18: under every limit on the open handles, from the tightest to no
\* effective limit, a finished search has visited every discoverable node
\* not cut off by a panic, every directory task that listed its path and
\* returned went through all its entries, every visited file was tested
\* and is reported iff it matches, and no line reports an exhaustion: the
\* result is stated without the limit, so it is the one of the unlimited
\* run, in which no open ever fails with exhaustion.
C18_LimitIndependent ==
    /\ limit = Unlimited =>
           \A t \in Nodes : ~ExhaustedCall(t) /\ pc[t] \notin { "listSleep", "readSleep" }
    /\ \A l \in DOMAIN out : ~ExhaustionLine(l)
    /\ SearchDone =>
           /\ \A n \in Nodes :
                  (Discoverable(n) /\ Undisturbed(n)) => Started(n) /\ Ended(n)
           /\ \A n \in Nodes :
                  (IsDir(n) /\ fs[n].err = "ok" /\ pc[n] = "returned")
                      => idx[n] = Len(Entries(n)) + 1
           /\ \A n \in Nodes :
                  Started(n) => Printed(n) = IF Matching(n) THEN 1 ELSE 0
           /\ (\A t \in Nodes : pc[t] # "panicked") => Reported = ReportedUndisturbed

\* a search under a limit below the number of tasks has finished and
\* reported two matches, after the budget had been used up
C18_Witness ==
    /\ SearchDone
    /\ limit < Unlimited
    /\ Cardinality(Reported) >= 2
    /\ Reported = ReportedUndisturbed

(***************************************************************************)
(* C19                                                                     *)
(***************************************************************************)
NoPanic == \A t \in Nodes : pc[t] # "panicked"

\* C19: no match line is printed while the root call runs, and the drain
\* loop runs only once the root call has returned; when no task has
\* panicked, then from the start of the drain loop on no producer handle
\* is left, every match of the run is in the channel or already printed,
\* and the loop can always take its next step (receive or end).
C19_DrainAfterRootReturn ==
    /\ mainpc = "search" =>
           /\ pc[config.path] \notin Terminated
           /\ \A n \in Nodes : Printed(n) = 0
    /\ mainpc = "drain" => pc[config.path] = "returned"
    /\ (\E n \in Nodes : Printed(n) >= 1) => pc[config.path] = "returned"
    /\ (mainpc = "drain" /\ NoPanic) =>
           /\ TxHolders = {}
           /\ \A n \in Nodes : (Discoverable(n) /\ Matching(n)) => Sent(n) = 1
           /\ \A n \in Nodes : Sent(n) = 1 => (Discoverable(n) /\ Matching(n))
           /\ ENABLED (MainRecv \/ MainExit)

\* the drain loop is about to start with two matches queued, none
\* printed, in a run without a panic
C19_Witness ==
    /\ mainpc = "drain"
    /\ NoPanic
    /\ Len(chan) >= 2
    /\ \A n \in Nodes : Printed(n) = 0

(***************************************************************************)
(* C20                                                                     *)
(***************************************************************************)
SendFailureLine == Line("Error while sending results from the thread", NoNode, <<>>)

\* while the process runs the receiver is alive, a task about to send can
\* send at once, and the diagnostic of a failed send was never printed
C20_ReceiverAlive ==
    /\ Running => rxAlive
    /\ \A t \in Nodes : (Running /\ pc[t] = "send") => ENABLED Send(t)
    /\ CopiesIn(SendFailureLine, out) = 0

\* the step in which a task sends queues its path and prints nothing
C20_SendStep ==
    \A t \in Nodes :
        (pc[t] = "send" /\ pc'[t] # "send") =>
            /\ chan' = Append(chan, t)
            /\ out' = out
            /\ pc'[t] = "returned"

====
